---- MODULE Spec2Model ----
(***************************************************************************)
(* Model of the go-arm-deployment command line tool: main's subcommand     *)
(* dispatch (src/unnamed/part_000), the push handler in its two revisions  *)
(* (src/push.go, src/unnamed/part_001) and the Azure helper routines       *)
(* getEnvVarOrExit, initializeAzureClients and uploadVMImage (src/push.go).*)
(*                                                                         *)
(* The functions of src/push.go other than push have no caller in the      *)
(* program.  The model therefore has one entry point per routine: a        *)
(* behaviour is either a run of the process from main, or one call of a    *)
(* helper routine with inputs drawn from bounded sets.                     *)
(*                                                                         *)
(* Calls into the Azure SDK and azure-vhd-utils are the environment: each  *)
(* returns success or an error, and a call that reaches the network is     *)
(* appended to the call log net and changes the remote state only in the   *)
(* success case.                                                           *)
(***************************************************************************)
EXTENDS Integers, Sequences, FiniteSets, TLC

VARIABLES
    entry,          \* which routine this behaviour runs
    pc,             \* position in the running routine
    exitStatus,     \* -1 while the process runs, else the status of os.Exit
    fatalMsg,       \* message of the log.Fatalf that ended the process, or ""
    printed,        \* what was printed (fmt.Printf, flag usage), in order
    osArgs,         \* os.Args[1:]
    env,            \* the process environment, variable name -> value
    pushVariant,    \* which revision of push is linked in
    args,           \* main: flag.Args()
    flagVals,       \* push (part_001): values of the push-azure flag set
    handlerCalls,   \* subcommand handlers invoked by main, with arguments
    varName,        \* getEnvVarOrExit: parameter
    retVal,         \* getEnvVarOrExit: returned value
    clients,        \* package variables groupsClient, accountsClient (+ token)
    image,          \* the local VHD file uploadVMImage is pointed at
    keys,           \* uploadVMImage: *(accountKeys.Keys), each key's Value or None
    validated,      \* ensureVHDSanity has returned
    diskStream,     \* "closed" or "open"
    storageClient,  \* package variable simpleStorageClient is set
    remote,         \* the storage account: container, blob, pages
    net,            \* remote calls issued so far, in order
    localMetaData,  \* uploadVMImage: *MetaData, Some(record) or None
    m,              \* uploadVMImage: the map given to SetBlobMetadata, as pairs
    uploadableRanges, \* uploadVMImage: the range list, as a set of page indices
    cxt,            \* uploadVMImage: the DiskUploadContext, Some(record) or None
    errors          \* history: the calls that have returned an error, in order

vars == <<entry, pc, exitStatus, fatalMsg, printed, osArgs, env, pushVariant,
          args, flagVals, handlerCalls, varName, retVal, clients, image, keys,
          validated, diskStream, storageClient, remote, net, localMetaData, m,
          uploadableRanges, cxt, errors>>

inputVars == <<entry, osArgs, env, pushVariant, varName, image>>
mainVars == <<args, flagVals, handlerCalls>>
uploadVars == <<keys, validated, diskStream, storageClient, remote, net,
                localMetaData, m, uploadableRanges, cxt>>

(***************************************************************************)
(* Bounds                                                                  *)
(***************************************************************************)
MaxArgs == 3
MaxKeys == 2
MaxPages == 2
DigestLen == 2

(***************************************************************************)
(* Optional values (Go pointers and nil-able slices).                      *)
(***************************************************************************)
None == <<>>
Some(x) == <<x>>
IsSome(o) == Len(o) = 1
Get(o) == o[1]

(***************************************************************************)
(* Program constants                                                       *)
(***************************************************************************)
defaultStorageContainerName == "linuxkitcontainer"
defaultStorageBlobName == "linuxkitimage.vhd"
defaultLocation == "westeurope"
defaultAccountName == "linuxkit"
PageBlobPageSize == 2 * 1024 * 1024

(***************************************************************************)
(* Inputs                                                                  *)
(***************************************************************************)
\* The four credentials of the deployment; the source fixes no names.
EnvVarNames == {"SUBSCRIPTION_ID", "TENANT_ID", "CLIENT_ID", "CLIENT_SECRET"}
EnvValues == {"", "set"}

Tokens == {"push", "run", "deploy", "-x", "--", "-accountName", "img.vhd"}
\* a token that the flag package reads as a flag, and the flag it names
FlagNameOf == [t \in {"-x", "-accountName"} |->
                 IF t = "-x" THEN "x" ELSE "accountName"]

SeqsUpTo(S, n) == UNION {[1..k -> S] : k \in 0..n}

ByteVals == {0, 77, 255}
Digests == [1..DigestLen -> ByteVals]

Images == [valid : BOOLEAN, sizeOk : BOOLEAN, pages : 1..MaxPages,
           md5 : {None} \cup {Some(d) : d \in Digests}]
\* an image no routine looks at (behaviours that do not upload)
NoImage == [valid |-> TRUE, sizeOk |-> TRUE, pages |-> 1, md5 |-> None]

KeyLists == SeqsUpTo({None, Some("key")}, MaxKeys)

Entries == {"main", "getEnvVarOrExit", "initializeAzureClients", "uploadVMImage"}

(***************************************************************************)
(* Process termination                                                     *)
(***************************************************************************)
\* log.Fatalf: print the message, os.Exit(1)
Fatal(msg) ==
    /\ pc' = "exited"
    /\ exitStatus' = 1
    /\ fatalMsg' = msg

\* os.Exit(code) without a log message
Exit(code) ==
    /\ pc' = "exited"
    /\ exitStatus' = code
    /\ fatalMsg' = fatalMsg

\* a run-time panic (nil dereference, index out of range): the Go run time
\* prints the panic and exits with status 2
Panic(msg) ==
    /\ pc' = "exited"
    /\ exitStatus' = 2
    /\ fatalMsg' = msg

Goto(l) ==
    /\ pc' = l
    /\ UNCHANGED <<exitStatus, fatalMsg>>

(***************************************************************************)
(* The flag package: FlagSet.Parse with ExitOnError.  vals maps each       *)
(* defined flag (all string-valued here) to its current value.             *)
(***************************************************************************)
RECURSIVE ParseFlags(_, _)
ParseFlags(a, vals) ==
    IF Len(a) = 0 THEN [err |-> "", rest |-> a, vals |-> vals]
    ELSE IF Head(a) = "--" THEN [err |-> "", rest |-> Tail(a), vals |-> vals]
    ELSE IF Head(a) \notin DOMAIN FlagNameOf
         THEN [err |-> "", rest |-> a, vals |-> vals]
    ELSE IF FlagNameOf[Head(a)] \notin DOMAIN vals
         THEN [err |-> "flag provided but not defined", rest |-> Tail(a),
               vals |-> vals]
    ELSE IF Len(a) < 2
         THEN [err |-> "flag needs an argument", rest |-> Tail(a),
               vals |-> vals]
    ELSE ParseFlags(SubSeq(a, 3, Len(a)),
                    [vals EXCEPT ![FlagNameOf[Head(a)]] = a[2]])

\* main defines no flags of its own
NoFlags == [f \in {} |-> ""]
PushFlagDefaults ==
    [f \in {"resourceGroupName", "location", "accountName"} |->
        CASE f = "resourceGroupName" -> ""
          [] f = "location" -> defaultLocation
          [] f = "accountName" -> defaultAccountName]

(***************************************************************************)
(* Initial states                                                          *)
(***************************************************************************)
EmptyRemote ==
    [containerAccess |-> "absent", blobSize |-> None, blobMetadata |-> None,
     blobContentMD5 |-> None, pagesWritten |-> {}]

Init ==
    /\ entry \in Entries
    /\ pc = entry
    /\ exitStatus = -1
    /\ fatalMsg = ""
    /\ printed = <<>>
    /\ IF entry \in {"main", "getEnvVarOrExit"}
       THEN env \in [EnvVarNames -> EnvValues]
       ELSE env = [v \in EnvVarNames |-> "set"]
    /\ IF entry = "main"
       THEN /\ osArgs \in SeqsUpTo(Tokens, MaxArgs)
            /\ pushVariant \in {"push.go", "part_001"}
       ELSE /\ osArgs = <<>>
            /\ pushVariant = "push.go"
    /\ args = <<>>
    /\ flagVals = PushFlagDefaults
    /\ handlerCalls = <<>>
    /\ IF entry = "getEnvVarOrExit"
       THEN varName \in EnvVarNames
       ELSE varName = "SUBSCRIPTION_ID"
    /\ retVal = ""
    /\ clients = [oAuthConfig |-> FALSE, token |-> FALSE,
                  groupsClient |-> FALSE, accountsClient |-> FALSE]
    /\ IF entry = "uploadVMImage"
       THEN /\ image \in Images
            /\ remote \in {[EmptyRemote EXCEPT !.containerAccess = a] :
                             a \in {"absent", "private", "blob"}}
       ELSE /\ image = NoImage
            /\ remote = EmptyRemote
    /\ keys = <<>>
    /\ validated = FALSE
    /\ diskStream = "closed"
    /\ storageClient = FALSE
    /\ net = <<>>
    /\ localMetaData = None
    /\ m = {}
    /\ uploadableRanges = {}
    /\ cxt = None
    /\ errors = <<>>

(***************************************************************************)
(* main (src/unnamed/part_000)                                             *)
(***************************************************************************)
\* lines 10-11: flag.Parse(); args := flag.Args()
MainFlagParse ==
    /\ pc = "main"
    /\ LET r == ParseFlags(osArgs, NoFlags) IN
         IF r.err # ""
         THEN /\ printed' = printed \o <<r.err, "usage">>
              /\ Exit(2)
              /\ UNCHANGED args
         ELSE /\ args' = r.rest
              /\ Goto("main_checkArgs")
              /\ UNCHANGED printed
    /\ UNCHANGED <<inputVars, flagVals, handlerCalls, retVal, clients, uploadVars, errors>>

\* lines 12-16
MainCheckArgs ==
    /\ pc = "main_checkArgs"
    /\ IF Len(args) < 1
       THEN /\ printed' = printed \o <<"Please specify a command!", "usage">>
            /\ Exit(1)
       ELSE /\ Goto("main_switch")
            /\ UNCHANGED printed
    /\ UNCHANGED <<inputVars, mainVars, retVal, clients, uploadVars, errors>>

\* MainSwitch with the handlers given args instead of args[1:]
MainSwitch_PassesAllArgs ==
    /\ pc = "main_switch"
    /\ CASE args[1] = "push" ->
              /\ handlerCalls' = Append(handlerCalls, <<"push", args>>)
              /\ Goto("push")
              /\ UNCHANGED printed
         [] args[1] = "run" ->
              /\ handlerCalls' = Append(handlerCalls, <<"run", args>>)
              /\ Goto("run")
              /\ UNCHANGED printed
         [] OTHER ->
              /\ printed' = printed \o <<"is not a valid command", "usage">>
              /\ Exit(1)
              /\ UNCHANGED handlerCalls
    /\ UNCHANGED <<inputVars, args, flagVals, retVal, clients, uploadVars,
                   errors>>

\* lines 18-28
MainSwitch ==
    /\ pc = "main_switch"
    /\ CASE args[1] = "push" ->
              /\ handlerCalls' = Append(handlerCalls, <<"push", Tail(args)>>)
              /\ Goto("push")
              /\ UNCHANGED printed
         [] args[1] = "run" ->
              /\ handlerCalls' = Append(handlerCalls, <<"run", Tail(args)>>)
              /\ Goto("run")
              /\ UNCHANGED printed
         [] OTHER ->
              /\ printed' = printed \o <<"is not a valid command", "usage">>
              /\ Exit(1)
              /\ UNCHANGED handlerCalls
    /\ UNCHANGED <<inputVars, args, flagVals, retVal, clients, uploadVars,
                   errors>>

\* main returns after the handler: the process exits with status 0
MainReturn ==
    /\ pc = "main_return"
    /\ Exit(0)
    /\ UNCHANGED <<inputVars, mainVars, printed, retVal, clients, uploadVars, errors>>

(***************************************************************************)
(* push: src/push.go lines 38-40 and src/unnamed/part_001 lines 41-61      *)
(***************************************************************************)
\* the parameter args of the running handler
PushArgs == handlerCalls[Len(handlerCalls)][2]

PushPrint ==
    /\ pc = "push"
    /\ pushVariant = "push.go"
    /\ printed' = Append(printed, "pushing")
    /\ Goto("main_return")
    /\ UNCHANGED <<inputVars, mainVars, retVal, clients, uploadVars, errors>>

PushParse ==
    /\ pc = "push"
    /\ pushVariant = "part_001"
    /\ LET r == ParseFlags(PushArgs, PushFlagDefaults) IN
         IF r.err # ""
         THEN /\ printed' = printed \o <<r.err, "push usage">>
              /\ Exit(2)
              /\ UNCHANGED flagVals
         ELSE /\ flagVals' = r.vals
              /\ printed' = Append(printed, "Invoked with args")
              /\ Goto("main_return")
    /\ UNCHANGED <<inputVars, args, handlerCalls, retVal, clients, uploadVars, errors>>

\* run is called by main and defined in no file of the sources; it is taken
\* to return without effect
Run ==
    /\ pc = "run"
    /\ Goto("main_return")
    /\ UNCHANGED <<inputVars, mainVars, printed, retVal, clients, uploadVars, errors>>

(***************************************************************************)
(* getEnvVarOrExit (src/push.go lines 142-149)                             *)
(***************************************************************************)
getEnvVarOrExit ==
    /\ pc = "getEnvVarOrExit"
    /\ IF env[varName] = ""
       THEN /\ Fatal("Missing environment variable")
            /\ UNCHANGED retVal
       ELSE /\ retVal' = env[varName]
            /\ Goto("returned")
    /\ UNCHANGED <<inputVars, mainVars, printed, clients, uploadVars, errors>>

(***************************************************************************)
(* initializeAzureClients (src/push.go lines 42-59)                        *)
(***************************************************************************)
\* lines 43-46
NewOAuthConfig ==
    /\ pc = "initializeAzureClients"
    /\ \E ok \in BOOLEAN :
         IF ok
         THEN /\ clients' = [clients EXCEPT !.oAuthConfig = TRUE]
              /\ Goto("NewServicePrincipalToken")
              /\ UNCHANGED errors
         ELSE /\ Fatal("Cannot get oAuth configuration")
              /\ errors' = Append(errors, "NewOAuthConfig")
              /\ UNCHANGED clients
    /\ UNCHANGED <<inputVars, mainVars, printed, retVal, uploadVars>>

\* lines 48-57: the token object is built locally (it is refreshed on first
\* use), then both clients get it as their authorizer
NewServicePrincipalToken ==
    /\ pc = "NewServicePrincipalToken"
    /\ \E ok \in BOOLEAN :
         IF ok
         THEN /\ clients' = [clients EXCEPT !.token = TRUE,
                                            !.groupsClient = TRUE,
                                            !.accountsClient = TRUE]
              /\ Goto("returned")
              /\ UNCHANGED errors
         ELSE /\ Fatal("Cannot get service principal token")
              /\ errors' = Append(errors, "NewServicePrincipalToken")
              /\ UNCHANGED clients
    /\ UNCHANGED <<inputVars, mainVars, printed, retVal, uploadVars>>

(***************************************************************************)
(* base64.StdEncoding.EncodeToString (src/push.go line 172), on a sequence *)
(* of bytes, giving the sequence of the encoding's characters.             *)
(***************************************************************************)
Base64Alphabet ==
    <<"A", "B", "C", "D", "E", "F", "G", "H", "I", "J", "K", "L", "M",
      "N", "O", "P", "Q", "R", "S", "T", "U", "V", "W", "X", "Y", "Z",
      "a", "b", "c", "d", "e", "f", "g", "h", "i", "j", "k", "l", "m",
      "n", "o", "p", "q", "r", "s", "t", "u", "v", "w", "x", "y", "z",
      "0", "1", "2", "3", "4", "5", "6", "7", "8", "9", "+", "/">>

B64(i) == Base64Alphabet[i + 1]

RECURSIVE Base64Encode(_)
Base64Encode(bs) ==
    IF Len(bs) = 0 THEN <<>>
    ELSE IF Len(bs) = 1
         THEN <<B64(bs[1] \div 4), B64((bs[1] % 4) * 16), "=", "=">>
    ELSE IF Len(bs) = 2
         THEN <<B64(bs[1] \div 4),
                B64((bs[1] % 4) * 16 + bs[2] \div 16),
                B64((bs[2] % 16) * 4), "=">>
    ELSE <<B64(bs[1] \div 4),
           B64((bs[1] % 4) * 16 + bs[2] \div 16),
           B64((bs[2] % 16) * 4 + bs[3] \div 64),
           B64(bs[3] % 64)>> \o Base64Encode(SubSeq(bs, 4, Len(bs)))

(***************************************************************************)
(* uploadVMImage (src/push.go lines 61-140)                                *)
(***************************************************************************)
\* diskStream.GetSize(): the logical size of the image in bytes
GetSize == image.pages * PageBlobPageSize

\* MetaData.ToMap: the metadata as the one-entry map written onto the blob
ToMap(md) == {<<"diskmetadata", md>>}

\* a call of the SDK that returned an error the code hands to log.Fatalf
FatalOn(call, msg) ==
    /\ Fatal(msg)
    /\ errors' = Append(errors, call)

\* lines 66-71: accountsClient.ListKeys, then keys := *(accountKeys.Keys)
ListKeys ==
    /\ pc = "uploadVMImage"
    /\ net' = Append(net, "ListKeys")
    /\ \E ok \in BOOLEAN, ks \in {None} \cup {Some(l) : l \in KeyLists} :
         IF ~ok
         THEN /\ FatalOn("ListKeys", "Unable to retrieve storage account key")
              /\ UNCHANGED keys
         ELSE IF ks = None
         THEN /\ Panic("nil pointer dereference")
              /\ UNCHANGED <<keys, errors>>
         ELSE /\ keys' = Get(ks)
              /\ Goto("Abs")
              /\ UNCHANGED errors
    /\ UNCHANGED <<inputVars, mainVars, printed, retVal, clients, validated,
                   diskStream, storageClient, remote, localMetaData, m,
                   uploadableRanges, cxt>>

\* lines 73-76: filepath.Abs
Abs ==
    /\ pc = "Abs"
    /\ \E ok \in BOOLEAN :
         IF ok
         THEN Goto("ensureVHDSanity") /\ UNCHANGED errors
         ELSE FatalOn("Abs", "Unable to get absolute path")
    /\ UNCHANGED <<inputVars, mainVars, printed, retVal, clients, uploadVars>>

\* ensureVHDSanity without the size check
ensureVHDSanity_NoSizeCheck ==
    /\ pc = "ensureVHDSanity"
    /\ IF ~image.valid
       THEN /\ FatalOn("ValidateVhd", "Unable to validate VHD")
            /\ UNCHANGED validated
       ELSE /\ validated' = TRUE
            /\ Goto("CreateNewDiskStream")
            /\ UNCHANGED errors
    /\ UNCHANGED <<inputVars, mainVars, printed, retVal, clients, keys,
                   diskStream, storageClient, remote, net, localMetaData, m,
                   uploadableRanges, cxt>>

\* ensureVHDSanity reporting a failed validation without ending the process
ensureVHDSanity_LogsAndContinues ==
    /\ pc = "ensureVHDSanity"
    /\ IF ~image.valid
       THEN errors' = Append(errors, "ValidateVhd")
       ELSE IF ~image.sizeOk
       THEN errors' = Append(errors, "ValidateVhdSize")
       ELSE UNCHANGED errors
    /\ validated' = TRUE
    /\ Goto("CreateNewDiskStream")
    /\ UNCHANGED <<inputVars, mainVars, printed, retVal, clients, keys,
                   diskStream, storageClient, remote, net, localMetaData, m,
                   uploadableRanges, cxt>>

\* line 78 and lines 151-159: validator.ValidateVhd, then ValidateVhdSize
ensureVHDSanity ==
    /\ pc = "ensureVHDSanity"
    /\ IF ~image.valid
       THEN /\ FatalOn("ValidateVhd", "Unable to validate VHD")
            /\ UNCHANGED validated
       ELSE IF ~image.sizeOk
       THEN /\ FatalOn("ValidateVhdSize", "Unable to validate VHD size")
            /\ UNCHANGED validated
       ELSE /\ validated' = TRUE
            /\ Goto("CreateNewDiskStream")
            /\ UNCHANGED errors
    /\ UNCHANGED <<inputVars, mainVars, printed, retVal, clients, keys,
                   diskStream, storageClient, remote, net, localMetaData, m,
                   uploadableRanges, cxt>>

\* lines 80-84: diskstream.CreateNewDiskStream
CreateNewDiskStream ==
    /\ pc = "CreateNewDiskStream"
    /\ \E ok \in BOOLEAN :
         IF ok
         THEN /\ diskStream' = "open"
              /\ Goto("NewBasicClient")
              /\ UNCHANGED errors
         ELSE /\ FatalOn("CreateNewDiskStream",
                         "Unable to create disk stream for VHD")
              /\ UNCHANGED diskStream
    /\ UNCHANGED <<inputVars, mainVars, printed, retVal, clients, keys,
                   validated, storageClient, remote, net, localMetaData, m,
                   uploadableRanges, cxt>>

\* lines 86-89: simpleStorage.NewBasicClient(accountName, *keys[0].Value)
NewBasicClient ==
    /\ pc = "NewBasicClient"
    /\ IF Len(keys) = 0
       THEN /\ Panic("index out of range")
            /\ UNCHANGED <<storageClient, errors>>
       ELSE IF keys[1] = None
       THEN /\ Panic("nil pointer dereference")
            /\ UNCHANGED <<storageClient, errors>>
       ELSE \E ok \in BOOLEAN :
              IF ok
              THEN /\ storageClient' = TRUE
                   /\ Goto("CreateContainerIfNotExists")
                   /\ UNCHANGED errors
              ELSE /\ FatalOn("NewBasicClient",
                              "Unable to create simple storage client")
                   /\ UNCHANGED storageClient
    /\ UNCHANGED <<inputVars, mainVars, printed, retVal, clients, keys,
                   validated, diskStream, remote, net, localMetaData, m,
                   uploadableRanges, cxt>>

\* lines 91-95: CreateContainerIfNotExists(container, ContainerAccessTypePrivate)
CreateContainerIfNotExists ==
    /\ pc = "CreateContainerIfNotExists"
    /\ net' = Append(net, "CreateContainerIfNotExists")
    /\ \E ok \in BOOLEAN :
         IF ok
         THEN /\ remote' = [remote EXCEPT !.containerAccess =
                              IF @ = "absent" THEN "private" ELSE @]
              /\ Goto("getLocalVHDMetaData")
              /\ UNCHANGED errors
         ELSE /\ FatalOn("CreateContainerIfNotExists",
                         "Unable to create or retrieve container")
              /\ UNCHANGED remote
    /\ UNCHANGED <<inputVars, mainVars, printed, retVal, clients, keys,
                   validated, diskStream, storageClient, localMetaData, m,
                   uploadableRanges, cxt>>

\* line 97 and lines 161-167: uploadMetaData.NewMetaDataFromLocalVHD
getLocalVHDMetaData ==
    /\ pc = "getLocalVHDMetaData"
    /\ \E ok \in BOOLEAN :
         IF ok
         THEN /\ localMetaData' = Some([MD5Hash |-> image.md5,
                                        Size |-> GetSize])
              /\ Goto("PutPageBlob")
              /\ UNCHANGED errors
         ELSE /\ FatalOn("NewMetaDataFromLocalVHD",
                         "Unable to get VHD metadata")
              /\ UNCHANGED localMetaData
    /\ UNCHANGED <<inputVars, mainVars, printed, retVal, clients, keys,
                   validated, diskStream, storageClient, remote, net, m,
                   uploadableRanges, cxt>>

\* lines 99-102: PutPageBlob(container, blob, diskStream.GetSize(), nil)
\* creates the blob anew: no metadata, no content checksum, no page written
PutPageBlob ==
    /\ pc = "PutPageBlob"
    /\ net' = Append(net, "PutPageBlob")
    /\ \E ok \in BOOLEAN :
         IF ok
         THEN /\ remote' = [remote EXCEPT !.blobSize = Some(GetSize),
                                          !.blobMetadata = None,
                                          !.blobContentMD5 = None,
                                          !.pagesWritten = {}]
              /\ Goto("ToMap")
              /\ UNCHANGED errors
         ELSE /\ FatalOn("PutPageBlob", "Unable to create VHD blob")
              /\ UNCHANGED remote
    /\ UNCHANGED <<inputVars, mainVars, printed, retVal, clients, keys,
                   validated, diskStream, storageClient, localMetaData, m,
                   uploadableRanges, cxt>>

\* line 104: m, _ := localMetaData.ToMap() -- the error is discarded, and on
\* an error m is the nil map
ToMapStep ==
    /\ pc = "ToMap"
    /\ \E ok \in BOOLEAN :
         IF ok
         THEN /\ m' = ToMap(Get(localMetaData))
              /\ UNCHANGED errors
         ELSE /\ m' = {}
              /\ errors' = Append(errors, "ToMap")
    /\ Goto("SetBlobMetadata")
    /\ UNCHANGED <<inputVars, mainVars, printed, retVal, clients, keys,
                   validated, diskStream, storageClient, remote, net,
                   localMetaData, uploadableRanges, cxt>>

\* lines 105-108: SetBlobMetadata(container, blob, m, {})
SetBlobMetadata ==
    /\ pc = "SetBlobMetadata"
    /\ net' = Append(net, "SetBlobMetadata")
    /\ \E ok \in BOOLEAN :
         IF ok
         THEN /\ remote' = [remote EXCEPT !.blobMetadata = Some(m)]
              /\ Goto("LocateUploadableRanges")
              /\ UNCHANGED errors
         ELSE /\ FatalOn("SetBlobMetadata", "Unable to set blob metatada")
              /\ UNCHANGED remote
    /\ UNCHANGED <<inputVars, mainVars, printed, retVal, clients, keys,
                   validated, diskStream, storageClient, localMetaData, m,
                   uploadableRanges, cxt>>

\* lines 110-114: upload.LocateUploadableRanges(diskStream, nil, pageSize);
\* the library's answer is some set of pages of the image
LocateUploadableRanges ==
    /\ pc = "LocateUploadableRanges"
    /\ \E ok \in BOOLEAN, rs \in SUBSET (1..image.pages) :
         IF ok
         THEN /\ uploadableRanges' = rs
              /\ Goto("DetectEmptyRanges")
              /\ UNCHANGED errors
         ELSE /\ FatalOn("LocateUploadableRanges",
                         "Unable to locate uploadable ranges")
              /\ UNCHANGED uploadableRanges
    /\ UNCHANGED <<inputVars, mainVars, printed, retVal, clients, keys,
                   validated, diskStream, storageClient, remote, net,
                   localMetaData, m, cxt>>

\* lines 116-119: upload.DetectEmptyRanges(diskStream, uploadableRanges)
DetectEmptyRanges ==
    /\ pc = "DetectEmptyRanges"
    /\ \E ok \in BOOLEAN, rs \in SUBSET (1..image.pages) :
         IF ok
         THEN /\ uploadableRanges' = rs
              /\ Goto("Upload")
              /\ UNCHANGED errors
         ELSE /\ FatalOn("DetectEmptyRanges",
                         "Unable to detect empty blob ranges")
              /\ UNCHANGED uploadableRanges
    /\ UNCHANGED <<inputVars, mainVars, printed, retVal, clients, keys,
                   validated, diskStream, storageClient, remote, net,
                   localMetaData, m, cxt>>

\* lines 121-131
DiskUploadContext ==
    [UploadableRanges |-> uploadableRanges,
     AlreadyProcessedBytes |-> 0,
     ContainerName |-> defaultStorageContainerName,
     BlobName |-> defaultStorageBlobName,
     Resume |-> FALSE,
     MD5Hash |-> Get(localMetaData).MD5Hash]

\* lines 121-136: upload.Upload(cxt); the library writes pages of the blob
\* as it runs, and may have written some when it returns an error
Upload ==
    /\ pc = "Upload"
    /\ cxt' = Some(DiskUploadContext)
    /\ net' = Append(net, "Upload")
    /\ \E ok \in BOOLEAN, w \in SUBSET (1..image.pages) :
         /\ remote' = [remote EXCEPT !.pagesWritten = w]
         /\ IF ok
            THEN Goto("setBlobMD5Hash") /\ UNCHANGED errors
            ELSE FatalOn("Upload", "Unable to upload VHD")
    /\ UNCHANGED <<inputVars, mainVars, printed, retVal, clients, keys,
                   validated, diskStream, storageClient, localMetaData, m,
                   uploadableRanges>>

\* setBlobMD5Hash returning normally when SetBlobProperties fails
setBlobMD5Hash_IgnoresError ==
    /\ pc = "setBlobMD5Hash"
    /\ IF IsSome(Get(localMetaData).MD5Hash)
       THEN /\ net' = Append(net, "SetBlobProperties")
            /\ \E ok \in BOOLEAN :
                 IF ok
                 THEN /\ remote' = [remote EXCEPT !.blobContentMD5 =
                            Some(Base64Encode(Get(Get(localMetaData).MD5Hash)))]
                      /\ UNCHANGED errors
                 ELSE /\ errors' = Append(errors, "SetBlobProperties")
                      /\ UNCHANGED remote
       ELSE UNCHANGED <<net, remote, errors>>
    /\ diskStream' = "closed"
    /\ Goto("returned")
    /\ UNCHANGED <<inputVars, mainVars, printed, retVal, clients, keys,
                   validated, storageClient, localMetaData, m,
                   uploadableRanges, cxt>>

\* line 138 and lines 169-178; on return the deferred diskStream.Close() runs
setBlobMD5Hash ==
    /\ pc = "setBlobMD5Hash"
    /\ IF IsSome(Get(localMetaData).MD5Hash)
       THEN /\ net' = Append(net, "SetBlobProperties")
            /\ \E ok \in BOOLEAN :
                 IF ok
                 THEN /\ remote' = [remote EXCEPT !.blobContentMD5 =
                            Some(Base64Encode(Get(Get(localMetaData).MD5Hash)))]
                      /\ diskStream' = "closed"
                      /\ Goto("returned")
                      /\ UNCHANGED errors
                 ELSE /\ FatalOn("SetBlobProperties",
                                 "Unable to set blob properties")
                      /\ UNCHANGED <<remote, diskStream>>
       ELSE /\ diskStream' = "closed"
            /\ Goto("returned")
            /\ UNCHANGED <<net, remote, errors>>
    /\ UNCHANGED <<inputVars, mainVars, printed, retVal, clients, keys,
                   validated, storageClient, localMetaData, m,
                   uploadableRanges, cxt>>

(***************************************************************************)
(* Properties                                                              *)
(***************************************************************************)
Has(s, x) == \E i \in 1..Len(s) : s[i] = x
Count(s, x) == Cardinality({i \in 1..Len(s) : s[i] = x})
\* the position of the first x in s (0 when there is none)
First(s, x) == IF Has(s, x) THEN CHOOSE i \in 1..Len(s) :
                                   s[i] = x /\ \A j \in 1..(i - 1) : s[j] # x
               ELSE 0

InUpload == entry = "uploadVMImage"
ImageFailsValidation == ~image.valid \/ ~image.sizeOk
ValidationMsgs == {"Unable to validate VHD", "Unable to validate VHD size"}

\* the inverse of the standard base64 encoding
B64Index(c) == (CHOOSE i \in 1..64 : Base64Alphabet[i] = c) - 1
RECURSIVE Base64Decode(_)
Base64Decode(cs) ==
    IF Len(cs) < 4 THEN <<>>
    ELSE LET a == B64Index(cs[1])
             b == B64Index(cs[2])
         IN  IF cs[3] = "=" THEN <<a * 4 + b \div 16>>
             ELSE IF cs[4] = "="
                  THEN <<a * 4 + b \div 16,
                         (b % 16) * 16 + B64Index(cs[3]) \div 4>>
             ELSE <<a * 4 + b \div 16,
                    (b % 16) * 16 + B64Index(cs[3]) \div 4,
                    (B64Index(cs[3]) % 4) * 64 + B64Index(cs[4])>>
                  \o Base64Decode(SubSeq(cs, 5, Len(cs)))

\* C1: in a run of uploadVMImage on an image that fails the structural
\* validation or the size check, CreateContainerIfNotExists and PutPageBlob are
\* never called, no blob exists, and the run ends in the validation's fatal
\* error (status 1) if it gets as far as ensureVHDSanity.
C1_NoAllocationAfterFailedValidation ==
    (InUpload /\ ImageFailsValidation) =>
        /\ ~Has(net, "CreateContainerIfNotExists")
        /\ ~Has(net, "PutPageBlob")
        /\ remote.blobSize = None
        /\ ~validated
        /\ pc \in {"uploadVMImage", "Abs", "ensureVHDSanity", "exited"}
        /\ (fatalMsg \in ValidationMsgs => pc = "exited" /\ exitStatus = 1)

C1_Witness ==
    /\ InUpload
    /\ pc = "exited"
    /\ fatalMsg = "Unable to validate VHD size"
    /\ net = <<"ListKeys">>

\* C2 as stated: in a run of uploadVMImage no remote call of any kind, the key
\* listing included, is issued before ensureVHDSanity has succeeded.
C2_NoCallBeforeValidation ==
    (InUpload /\ ~(validated /\ ~ImageFailsValidation)) => net = <<>>

\* C2 as amended: before ensureVHDSanity has succeeded the only remote call
\* issued is the one storage-account key listing; a run that fails validation
\* has issued exactly that call and no container or blob operation.
C2_OnlyKeyListingBeforeValidation ==
    (InUpload /\ ~(validated /\ ~ImageFailsValidation)) =>
        /\ net \in {<<>>, <<"ListKeys">>}
        /\ (pc \in {"Abs", "ensureVHDSanity"} => net = <<"ListKeys">>)
        /\ (fatalMsg \in ValidationMsgs => net = <<"ListKeys">>)
        /\ remote.blobSize = None

C2_Witness ==
    /\ InUpload
    /\ pc = "exited"
    /\ fatalMsg = "Unable to validate VHD"
    /\ net = <<"ListKeys">>

PushInvoked == handlerCalls # <<>> /\ handlerCalls[1][1] = "push"

\* C3: a run of the process that is asked to push while one of the four
\* required environment variables is absent or empty ends with a non-zero
\* status, and no remote call has been made.
C3_MissingEnvVarExitsNonZero ==
    (entry = "main" /\ pc = "exited" /\ PushInvoked
       /\ \E v \in EnvVarNames : env[v] = "") =>
        /\ exitStatus # 0
        /\ net = <<>>

\* C4: a run of main that dispatches to push has, when the process ends,
\* executed the upload orchestration (clients initialised, image validated,
\* upload called) or ended in an error (a non-zero status).
C4_PushRunsUpload ==
    (entry = "main" /\ pc = "exited" /\ PushInvoked) =>
        \/ clients.accountsClient /\ validated /\ Has(net, "Upload")
        \/ exitStatus # 0

\* C5: in main, once flag.Parse has returned, with pos the positional
\* arguments: if pos is empty or pos[1] is neither "push" nor "run", no handler
\* is ever invoked and the process ends with usage printed and status 1; a
\* handler is invoked only when pos[1] names it, exactly once, with the
\* remaining arguments pos[2..], and control is in that handler.
C5_Dispatch ==
    (entry = "main" /\ ParseFlags(osArgs, NoFlags).err = "") =>
        LET pos == ParseFlags(osArgs, NoFlags).rest
            recognized == Len(pos) >= 1 /\ pos[1] \in {"push", "run"}
        IN  /\ ~recognized =>
                /\ handlerCalls = <<>>
                /\ pc \in {"main", "main_checkArgs", "main_switch", "exited"}
                /\ pc = "exited" =>
                     /\ exitStatus = 1
                     /\ Len(printed) = 2 /\ printed[2] = "usage"
            /\ handlerCalls # <<>> =>
                /\ recognized
                /\ handlerCalls = << <<pos[1], Tail(pos)>> >>
            /\ pc \in {"push", "run"} =>
                /\ recognized
                /\ pc = pos[1]
                /\ handlerCalls # <<>>
            /\ (recognized /\ pc \in {"main_return", "exited"}) =>
                handlerCalls # <<>>

C5_Witness ==
    /\ entry = "main"
    /\ pc = "exited"
    /\ exitStatus = 1
    /\ args # <<>>
    /\ printed = <<"is not a valid command", "usage">>
    /\ handlerCalls = <<>>

\* C6: in a run of uploadVMImage that has reached upload.Upload, the container
\* exists, the page blob was allocated exactly once, at the full image size,
\* and the image's metadata map is on the blob, the three calls having been
\* made in that order before Upload; no page is written before Upload.
C6_PreparedBeforeTransfer ==
    InUpload =>
        /\ Has(net, "Upload") =>
             /\ remote.containerAccess # "absent"
             /\ remote.blobSize = Some(GetSize)
             /\ Count(net, "PutPageBlob") = 1
             /\ remote.blobMetadata = Some(ToMap(Get(localMetaData)))
             /\ 0 < First(net, "CreateContainerIfNotExists")
             /\ First(net, "CreateContainerIfNotExists") < First(net, "PutPageBlob")
             /\ First(net, "PutPageBlob") < First(net, "SetBlobMetadata")
             /\ First(net, "SetBlobMetadata") < First(net, "Upload")
        /\ remote.pagesWritten # {} => Has(net, "Upload")

\* C7: the blob's content checksum is set only by a SetBlobProperties call made
\* after upload.Upload returned without error and only when MD5Hash is not nil,
\* and it then decodes to exactly the local digest; after a failed upload it is
\* never set; with no digest the step is skipped and the routine returns; a
\* failed SetBlobProperties ends the process with status 1.
C7_ChecksumAfterUpload ==
    InUpload =>
        /\ Has(net, "SetBlobProperties") =>
             /\ Has(net, "Upload") /\ ~Has(errors, "Upload")
             /\ First(net, "Upload") < First(net, "SetBlobProperties")
             /\ Count(net, "SetBlobProperties") = 1
             /\ IsSome(image.md5)
        /\ IsSome(remote.blobContentMD5) =>
             /\ Has(net, "SetBlobProperties")
             /\ IsSome(image.md5)
             /\ Base64Decode(Get(remote.blobContentMD5)) = Get(image.md5)
        /\ Has(errors, "Upload") =>
             /\ ~Has(net, "SetBlobProperties")
             /\ remote.blobContentMD5 = None
        /\ (pc = "returned" /\ image.md5 = None) =>
             /\ ~Has(net, "SetBlobProperties")
             /\ remote.blobContentMD5 = None
             /\ exitStatus = -1 /\ ~Has(errors, "SetBlobProperties")
        /\ (pc = "returned" /\ IsSome(image.md5)) =>
             IsSome(remote.blobContentMD5)
        /\ Has(errors, "SetBlobProperties") =>
             /\ pc = "exited" /\ exitStatus = 1
             /\ fatalMsg = "Unable to set blob properties"
             /\ remote.blobContentMD5 = None

C7_Witness ==
    /\ InUpload
    /\ pc = "returned"
    /\ IsSome(remote.blobContentMD5)
    /\ Get(image.md5) = <<255, 77>>

\* C10: in uploadVMImage, once any step has reported an error the process has
\* ended with a non-zero status: no step that follows is executed.
C10_FailFast ==
    (InUpload /\ errors # <<>>) => (pc = "exited" /\ exitStatus # 0)

Next ==
    \/ MainFlagParse
    \/ MainCheckArgs
    \/ MainSwitch
    \/ MainReturn
    \/ PushPrint
    \/ PushParse
    \/ Run
    \/ getEnvVarOrExit
    \/ NewOAuthConfig
    \/ NewServicePrincipalToken
    \/ ListKeys
    \/ Abs
    \/ ensureVHDSanity
    \/ CreateNewDiskStream
    \/ NewBasicClient
    \/ CreateContainerIfNotExists
    \/ getLocalVHDMetaData
    \/ PutPageBlob
    \/ ToMapStep
    \/ SetBlobMetadata
    \/ LocateUploadableRanges
    \/ DetectEmptyRanges
    \/ Upload
    \/ setBlobMD5Hash

Spec == Init /\ [][Next]_vars
====
